---- MODULE Spec2Model ----
(***************************************************************************)
(* Model of github.com/mooredwightd/logger: the rotating log file          *)
(* (filelogger.go, type LogFile) and its wall-clock timer (logtimer.go,    *)
(* type LogTimer).                                                         *)
(*                                                                         *)
(* One LogFile instance is modelled together with the file system it       *)
(* writes to, the goroutines that call its methods and the goroutine the   *)
(* Go runtime starts when the timer expires.  A file name is a number:     *)
(* 0 is the empty string, a volume file prefix.NNNN.log is NNNN, a daily   *)
(* file is the day number + 1 and a timed file is the clock value + 1.     *)
(* The clock counts half minutes, so that rounding to the minute           *)
(* (time.Round) is visible.                                                *)
(***************************************************************************)
EXTENDS Integers, Sequences, FiniteSets, TLC

(***************************************************************************)
(* Bounds of the model.                                                    *)
(***************************************************************************)
\* Number of method calls the caller goroutines start in one behaviour.
MaxCalls == 3
\* Number of half minutes the clock advances in one behaviour.
MaxTicks == 1
\* Number of half minutes the clock of a stand-alone timer advances.
MaxSpan == 3
\* Number of LogWriters given to a log manager, and of events logged.
MaxSinks == 2
MaxEvents == 2

(***************************************************************************)
(* Program constants.                                                      *)
(***************************************************************************)
Kbyte == 1024
Mbyte == 1000 * Kbyte
LogMinFileSize == Mbyte
LogMaxFileSize == 500 * Mbyte
logMaxVolNumber == 9999
logHighWaterMark == 2 * Kbyte
\* time.Minute, in clock ticks of half a minute.
Minute == 2
\* 24 * time.Hour, the cycle of the daily timer.
Day == 24 * 60 * Minute

Callers == {"t1", "t2"}
\* The callers of the specification with three writers.
LagCallers == Callers \cup {"t3"}
CbProcs == {"cb1"}
Procs == LagCallers \cup CbProcs
NoProc == "none"

\* Payloads handed to Write; NL is the newline byte.
NL == "\n"
Payloads == { <<NL>> }
\* Sizes requested from SizeLimitedFile.
Sizes == { 3 * Kbyte }
\* Cycles requested from TimedFile: 30 seconds.
Cycles == { Minute \div 2 }
\* Clock values at which the program starts: 23:59:30 of day 0.
StartTimes == { Day - 1 }

VARIABLES
    ctor,          \* outcome of the constructor call
    policy,        \* lf.policy
    currentFile,   \* lf.currentFile
    volNo,         \* lf.volNo
    fileSizeLimit, \* lf.fileSizeLimit
    reqSize,       \* the size last requested from SizeLimitedFile
    obs,           \* what the user of a stand-alone LogTimer has seen of it
    lm,            \* the log manager (Log) and its sinks
    f,             \* lf.f: the io.WriteCloser and the file it was opened on
    ltimer,        \* lf.ltimer and the LogTimer it points to
    mu,            \* lf.Mutex: the goroutine holding it, or NoProc
    pc,            \* position of every goroutine
    buf,           \* Write: bytes of the normalized record not yet appended
    cid,           \* number of the call a goroutine is executing
    org,           \* who called LogRotate: "manual", "write", "timer"
    res,           \* results so far of the call a goroutine is executing
    last,          \* results of the call that returned last
    disk,          \* the directory: file name -> size before start, bytes appended, ModTime
    now,           \* wall clock
    start,         \* clock value at program start
    calls,         \* calls started so far
    handles,       \* open file descriptors obtained through this instance
    swapped,       \* TRUE once a rotation has opened a file
    closedAt,      \* call numbers of the Close calls that have returned
    acked          \* Write calls that returned a nil error: call number and record

vars == << ctor, policy, currentFile, volNo, fileSizeLimit, reqSize, obs, lm, f, ltimer, mu,
          pc, buf, cid, org, res, last, disk, now, start, calls, handles, swapped, closedAt,
          acked >>


(***************************************************************************)
(* Values.                                                                 *)
(***************************************************************************)
\* lf.f before any assignment: the nil interface.
NilHandle == [st |-> "nil", file |-> 0]
\* lf.f after a failed os.OpenFile: an interface holding a nil *os.File.
InvalidHandle == [st |-> "invalid", file |-> 0]
\* lf.ltimer == nil.
NoTimer == [set |-> FALSE, armed |-> FALSE, due |-> 0, base |-> 0, next |-> 0, d |-> 0]
\* The observations of a stand-alone LogTimer: callbacks started, armings
\* (construction and Reset), armings cancelled by Stop or Reset, the time of
\* the last arming and whether it was a Reset, callbacks that panicked,
\* whether a panic left doTimerFunc, whether a Stop is blocked.
NoObs == [fired |-> 0, armings |-> 0, cancelled |-> 0, armedAt |-> 0, byReset |-> FALSE,
          panics |-> 0, fault |-> FALSE, blocked |-> FALSE]
\* What the last LogEvent or SetFilter did: its severity, whether a panic left
\* it, the modules whose Write it called and those whose Write gave an error,
\* and whether SetFilter returned an error.
NoOut == [sev |-> 0, fault |-> FALSE, tried |-> {}, failed |-> {}, err |-> FALSE]
\* No log manager made yet: filter, logModules, the number of events logged.
NoMgr == [made |-> FALSE, filter |-> 0, mods |-> << >>, events |-> 0, out |-> NoOut]
\* What a call gave back: n and err are Write's results, rotated is LogRotate's,
\* fault says that a panic left the call, bad that Write's append did not
\* succeed, rec is the normalized record of a Write.  While a Write is in
\* progress name is what LogFilename() returned when it was called and due says
\* that the file was within the high water mark of its limit then.
NoResult == [op |-> "none", by |-> NoProc, n |-> 0, err |-> FALSE, fault |-> FALSE,
             bad |-> FALSE, rotated |-> FALSE, rec |-> << >>, name |-> 0, due |-> FALSE,
             ready |-> FALSE]

max(x, y) == IF y > x THEN y ELSE x

\* Write, line 262: every newline becomes "; " and one newline is appended.
RECURSIVE ReplaceNL(_)
ReplaceNL(p) ==
    IF p = << >> THEN << >>
    ELSE IF Head(p) = NL THEN << ";", " " >> \o ReplaceNL(Tail(p))
    ELSE << Head(p) >> \o ReplaceNL(Tail(p))

Normalize(p) == Append(ReplaceNL(p), NL)

(***************************************************************************)
(* The file system.                                                        *)
(***************************************************************************)
Exists(name) == name \in DOMAIN disk
\* os.Stat(name).Size()
FileSize(name) == disk[name].pre + Len(disk[name].data)

\* An open that truncates the file (O_TRUNC).
DiskAfterOpenTruncates(name) ==
    (name :> [pre |-> 0, data |-> << >>, mtime |-> now]) @@ disk
\* os.OpenFile(name, O_CREATE|O_APPEND): an absent file is created empty, an
\* existing one is left as it is.
DiskAfterOpen(name) ==
    IF Exists(name) THEN disk
    ELSE (name :> [pre |-> 0, data |-> << >>, mtime |-> now]) @@ disk

\* One write(2) through a descriptor opened with O_APPEND.
DiskAfterAppend(name, bytes) ==
    [disk EXCEPT ![name] = [pre |-> @.pre, data |-> @.data \o bytes, mtime |-> now]]

RECURSIVE SortedSeq(_)
SortedSeq(S) ==
    IF S = {} THEN << >>
    ELSE LET m == CHOOSE x \in S : \A y \in S : x <= y
         IN << m >> \o SortedSeq(S \ {m})

(***************************************************************************)
(* File names.                                                             *)
(***************************************************************************)
\* calcNextVolumeNo, lines 468-475: the scan keeps the first file whose
\* ModTime is after that of every file before it.
RECURSIVE ScanModTime(_, _, _)
ScanModTime(matches, i, best) ==
    IF i > Len(matches) THEN best
    ELSE IF disk[matches[i]].mtime > disk[best].mtime
         THEN ScanModTime(matches, i + 1, matches[i])
         ELSE ScanModTime(matches, i + 1, best)

\* A next volume number that does not wrap.
calcNextVolumeNoUnwrapped ==
    LET matches == SortedSeq(DOMAIN disk)
    IN IF matches = << >> THEN 1
       ELSE ScanModTime(matches, 1, matches[1]) + 1
calcNextVolumeNo ==
    LET matches == SortedSeq(DOMAIN disk)
    IN IF matches = << >> THEN 1
       ELSE LET n == ScanModTime(matches, 1, matches[1])
                v == (n % logMaxVolNumber) + 1
            IN IF v = 0 THEN 1 ELSE v

\* getStaticFilename: the volume number it stores; the name is that number.
getStaticFilename == IF volNo = 0 THEN 1 ELSE calcNextVolumeNo
getDailyFilename == (now \div Day) + 1
getTimedFilename == now + 1

\* The filenameGen chosen by the constructor.
filenameGen ==
    CASE policy \in {"None", "FileSize"} -> getStaticFilename
      [] policy = "Daily" -> getDailyFilename
      [] policy = "TimeLimit" -> getTimedFilename
      [] OTHER -> 0

\* lf.volNo after filenameGen has run.
VolNoAfterGen == IF policy \in {"None", "FileSize"} THEN getStaticFilename ELSE volNo

\* SizeLimitedFile, lines 147-154.
SizeLimit(size) ==
    LET s == max(size, LogMaxFileSize)
    IN IF s % LogMinFileSize > 0
       THEN (s \div LogMinFileSize) * LogMinFileSize + LogMinFileSize
       ELSE LogMinFileSize

(***************************************************************************)
(* LogTimer.                                                               *)
(***************************************************************************)
\* time.Time.Round(time.Minute): halfway values round up.
RoundMinute(t) == ((2 * t + Minute) \div (2 * Minute)) * Minute
\* time.Date(y, m, d, h, min, 0, 0, l)
TruncMinute(t) == (t \div Minute) * Minute
\* time.Date(y, m, d, 0, 0, 0, 0, loc)
Midnight(t) == (t \div Day) * Day

calcDurationFromNow(t) == t - RoundMinute(now)

NewDailyTimer ==
    LET base == RoundMinute(Midnight(now))
        d == calcDurationFromNow(base + Day)
    IN [set |-> TRUE, armed |-> TRUE, due |-> now + d, base |-> base,
        next |-> base + Day, d |-> Day]

NewTimer(dur) ==
    LET base == TruncMinute(now)
    IN [set |-> TRUE, armed |-> TRUE, due |-> now + dur, base |-> base,
        next |-> base + dur, d |-> dur]

NewLocalTimer(dur) == NewTimer(dur)

\* A Stop that leaves the runtime timer running.
TimerStopNoop(lt) == lt
\* LogTimer.Stop: the timer was made by time.AfterFunc, so its channel C is nil
\* and nothing is drained.
TimerStop(lt) == [lt EXCEPT !.armed = FALSE]
\* A Reset that arms the timer without a new expiry time.
TimerResetKeepsDue(lt) == [TimerStop(lt) EXCEPT !.armed = TRUE]
\* LogTimer.Reset: Stop, then timer.Reset(lt.d).
TimerReset(lt) == [TimerStop(lt) EXCEPT !.armed = TRUE, !.due = now + lt.d]

(***************************************************************************)
(* Initial state: nothing constructed yet.  The directory is either empty  *)
(* or holds volume 1 of an earlier run, two bytes short of being due.      *)
(***************************************************************************)
Layouts ==
    { << >>,
      (1 :> [pre |-> LogMinFileSize - logHighWaterMark - 1, data |-> << >>, mtime |-> 0]) }

Init ==
    /\ ctor = "none"
    /\ policy = "Invalid"
    /\ currentFile = 0
    /\ volNo = 0
    /\ fileSizeLimit = 0
    /\ reqSize = 0
    /\ obs = NoObs
    /\ lm = NoMgr
    /\ f = NilHandle
    /\ ltimer = NoTimer
    /\ mu = NoProc
    /\ pc = [p \in Procs |-> "idle"]
    /\ buf = [p \in Procs |-> << >>]
    /\ cid = [p \in Procs |-> 0]
    /\ org = [p \in Procs |-> "none"]
    /\ res = [p \in Procs |-> NoResult]
    /\ last = NoResult
    /\ disk \in Layouts
    /\ now \in StartTimes
    /\ start = now
    /\ calls = 0
    /\ handles = 0
    /\ swapped = FALSE
    /\ closedAt = {}
    /\ acked = {}

(***************************************************************************)
(* openFile and closeFile.                                                 *)
(***************************************************************************)
\* openFile(filename): ok is whether os.OpenFile succeeds.
openFile(filename, ok) ==
    IF ok
    THEN /\ f' = [st |-> "open", file |-> filename]
         /\ currentFile' = filename
         /\ disk' = DiskAfterOpen(filename)
         /\ handles' = handles + 1
    ELSE /\ f' = InvalidHandle
         /\ UNCHANGED << currentFile, disk, handles >>

\* A Close that leaves the descriptor open.
HandlesAfterCloseLeak(h) == handles
\* (*os.File).Close on the handle h: the descriptors left open.
HandlesAfterClose(h) == IF h.st = "open" THEN handles - 1 ELSE handles
\* A Close that clears lf.f when the handle was not open.
ClosedHandleCleared(h) == IF h.st = "open" THEN [h EXCEPT !.st = "closed"] ELSE NilHandle
\* (*os.File).Close on the handle h: the handle afterwards.
ClosedHandle(h) == IF h.st = "open" THEN [h EXCEPT !.st = "closed"] ELSE h

(***************************************************************************)
(* Constructors.  Each runs with the lock held from before the open to its *)
(* return; the instance is not yet known to any other goroutine.           *)
(***************************************************************************)
Unconstructed == ctor = "none"
\* The files named by date and time are constructed in an empty directory only:
\* the volumes of an earlier run play no part in them.
FreshDir == disk = << >>

File(ok) ==
    /\ Unconstructed
    /\ policy' = "None"
    /\ volNo' = getStaticFilename
    /\ openFile(getStaticFilename, ok)
    /\ ctor' = IF ok THEN "ok" ELSE "failed"
    /\ UNCHANGED << fileSizeLimit, reqSize, obs, lm, ltimer, mu, pc, buf, cid, org, res, last, now, start,
                    calls, swapped, closedAt, acked >>

SizeLimitedFile(size, ok) ==
    /\ Unconstructed
    /\ policy' = "FileSize"
    /\ fileSizeLimit' = SizeLimit(size)
    /\ reqSize' = size
    /\ volNo' = getStaticFilename
    /\ openFile(getStaticFilename, ok)
    /\ ctor' = IF ok THEN "ok" ELSE "failed"
    /\ UNCHANGED << obs, lm, ltimer, mu, pc, buf, cid, org, res, last, now, start, calls,
                    swapped, closedAt, acked >>

\* When the open fails DailyFile calls lf.Close() with the lock held (lines
\* 181-185); Close calls lf.Lock() and waits for the lock of its own caller.
DailyFile(ok) ==
    /\ Unconstructed
    /\ FreshDir
    /\ policy' = "Daily"
    /\ openFile(getDailyFilename, ok)
    /\ IF ok
       THEN ltimer' = NewDailyTimer /\ ctor' = "ok" /\ mu' = mu
       ELSE ltimer' = ltimer /\ ctor' = "blocked" /\ mu' = "ctor"
    /\ UNCHANGED << volNo, fileSizeLimit, reqSize, obs, lm, pc, buf, cid, org, res, last, now, start,
                    calls, swapped, closedAt, acked >>

\* The same for TimedFile (lines 218-222).
TimedFile(rt, ok) ==
    /\ Unconstructed
    /\ FreshDir
    /\ policy' = "TimeLimit"
    /\ openFile(getTimedFilename, ok)
    /\ IF ok
       THEN ltimer' = NewLocalTimer(rt) /\ ctor' = "ok" /\ mu' = mu
       ELSE ltimer' = ltimer /\ ctor' = "blocked" /\ mu' = "ctor"
    /\ UNCHANGED << volNo, fileSizeLimit, reqSize, obs, lm, pc, buf, cid, org, res, last, now, start,
                    calls, swapped, closedAt, acked >>

\* lf := &LogFile{}: an instance that no constructor opened.
ZeroValue ==
    /\ Unconstructed
    /\ FreshDir
    /\ ctor' = "zero"
    /\ UNCHANGED << policy, currentFile, volNo, fileSizeLimit, reqSize, obs, lm, f, ltimer, mu, pc, buf,
                    cid, org, res, last, disk, now, start, calls, handles, swapped,
                    closedAt, acked >>

\* The instance can be called: a constructor returned it, or it is a literal.
Usable == ctor \in {"ok", "zero"}

(***************************************************************************)
(* The clock.                                                              *)
(***************************************************************************)
Tick ==
    /\ now < start + MaxTicks
    /\ now' = now + 1
    /\ UNCHANGED << ctor, policy, currentFile, volNo, fileSizeLimit, reqSize, obs, lm, f, ltimer, mu, pc,
                    buf, cid, org, res, last, disk, start, calls, handles, swapped,
                    closedAt, acked >>

(***************************************************************************)
(* The mutex embedded in LogFile.                                          *)
(***************************************************************************)
\* A Lock that never waits.
LockNeverWaits == TRUE
\* lf.Lock() returns only when no goroutine holds the mutex.
LockFree == mu = NoProc

\* The caller goroutines are interchangeable: a new call is made by "t1" when
\* it is free, by "t2" only while "t1" is inside a call, by "t3" only while
\* both are.
CanCall(t) ==
    /\ Usable
    /\ pc[t] = "idle"
    /\ \/ t = "t1"
       \/ t = "t2" /\ pc["t1"] # "idle"
       \/ t = "t3" /\ pc["t1"] # "idle" /\ pc["t2"] # "idle"
    /\ calls < MaxCalls

\* The call of goroutine p returns with the results r.
Return(p, r) ==
    /\ pc' = [pc EXCEPT ![p] = "idle"]
    /\ res' = [res EXCEPT ![p] = NoResult]
    /\ cid' = [cid EXCEPT ![p] = 0]
    /\ last' = [r EXCEPT !.by = p, !.name = 0, !.due = FALSE]
    /\ acked' = IF r.op = "Write" /\ ~r.err /\ ~r.fault
                THEN acked \cup {[id |-> cid[p], rec |-> r.rec]}
                ELSE acked

(***************************************************************************)
(* Write, lines 244-266, and writeEntry, lines 269-276.                    *)
(***************************************************************************)
\* A deferred function that recovers without setting the results.
RecoveredResultUnset(r) == [r EXCEPT !.bad = TRUE]
\* The results Write's deferred function sets after recover() (line 252).
RecoveredResult(r) == [r EXCEPT !.n = 0, !.err = TRUE, !.bad = TRUE]
\* The results of writeEntry when lf.f.Write returns an error (line 273).
FailedResult(r) == [r EXCEPT !.n = 0, !.err = TRUE, !.bad = TRUE]

\* The current file is a volume of a size-limited log whose size is at least
\* the limit less the high water mark.
AtHighWater ==
    /\ policy = "FileSize"
    /\ Exists(currentFile)
    /\ FileSize(currentFile) >= fileSizeLimit - logHighWaterMark

\* A goroutine calls lf.Write(p): lf.Lock() and the normalization of the
\* payload (lines 259-262).
WriteLock(t, p) ==
    /\ CanCall(t)
    /\ LockFree
    /\ mu' = t
    /\ calls' = calls + 1
    /\ cid' = [cid EXCEPT ![t] = calls + 1]
    /\ res' = [res EXCEPT ![t] = [NoResult EXCEPT !.op = "Write", !.rec = Normalize(p),
                                                  !.name = currentFile, !.due = AtHighWater]]
    /\ buf' = [buf EXCEPT ![t] = Normalize(p)]
    /\ pc' = [pc EXCEPT ![t] = "w_entry"]
    /\ UNCHANGED << ctor, policy, currentFile, volNo, fileSizeLimit, reqSize, obs, lm, f, ltimer, org, last,
                    disk, now, start, handles, swapped, closedAt, acked >>

\* lf.f is the nil interface: the call lf.f.Write panics, the deferred function
\* unlocks, recovers and returns (0, error) (lines 247-254).
WriteEntryPanic(t) ==
    /\ pc[t] = "w_entry"
    /\ f.st = "nil"
    /\ mu' = NoProc
    /\ buf' = [buf EXCEPT ![t] = << >>]
    /\ Return(t, RecoveredResult(res[t]))
    /\ UNCHANGED << ctor, policy, currentFile, volNo, fileSizeLimit, reqSize, obs, lm, f, ltimer, org,
                    disk, now, start, calls, handles, swapped, closedAt >>

\* lf.f.Write returns an error: the handle holds a nil or a closed *os.File, or
\* the first write(2) fails.  writeEntry returns (0, err); the deferred function
\* unlocks and goes on to the rotation check.
WriteEntryError(t) ==
    /\ pc[t] = "w_entry"
    /\ \/ f.st \in {"invalid", "closed"}
       \/ f.st = "open" /\ buf[t] = res[t].rec
    /\ mu' = NoProc
    /\ res' = [res EXCEPT ![t] = FailedResult(res[t])]
    /\ pc' = [pc EXCEPT ![t] = "w_check"]
    /\ buf' = [buf EXCEPT ![t] = << >>]
    /\ UNCHANGED << ctor, policy, currentFile, volNo, fileSizeLimit, reqSize, obs, lm, f, ltimer, cid, org,
                    last, disk, now, start, calls, handles, swapped, closedAt, acked >>

\* lf.f.Write appends the record; os.File.Write may need several write(2) calls,
\* modelled a byte at a time.  After the last byte writeEntry returns
\* (len(p), nil) and the deferred function unlocks.
WriteEntryAppend(t) ==
    /\ pc[t] = "w_entry"
    /\ f.st = "open"
    /\ buf[t] # << >>
    /\ disk' = DiskAfterAppend(f.file, << [c |-> cid[t], b |-> Head(buf[t])] >>)
    /\ buf' = [buf EXCEPT ![t] = Tail(buf[t])]
    /\ IF Tail(buf[t]) = << >>
       THEN /\ mu' = NoProc
            /\ res' = [res EXCEPT ![t].n = Len(res[t].rec)]
            /\ pc' = [pc EXCEPT ![t] = "w_check"]
       ELSE UNCHANGED << mu, res, pc >>
    /\ UNCHANGED << ctor, policy, currentFile, volNo, fileSizeLimit, reqSize, obs, lm, f, ltimer, cid, org,
                    last, now, start, calls, handles, swapped, closedAt, acked >>

(***************************************************************************)
(* LogRotateCheck, lines 308-315, with the checks it dispatches to.  It    *)
(* runs without the lock.                                                  *)
(***************************************************************************)
\* A sizeRotateCheck that is ready when size and high water mark reach the limit.
sizeRotateCheckAtLimit ==
    IF policy # "FileSize" THEN "false"
    ELSE IF ~Exists(currentFile) THEN "panic"
    ELSE IF FileSize(currentFile) + logHighWaterMark >= fileSizeLimit THEN "true"
    ELSE "false"
\* sizeRotateCheck, lines 364-381; "panic" when os.Stat fails (log.Panicf).
sizeRotateCheck ==
    IF policy # "FileSize" THEN "false"
    ELSE IF ~Exists(currentFile) THEN "panic"
    ELSE IF FileSize(currentFile) + logHighWaterMark > fileSizeLimit THEN "true"
    ELSE "false"

\* timedRotateCheck, lines 330-335.
timedRotateCheck ==
    IF ~ltimer.set THEN "false"
    ELSE IF RoundMinute(now) > ltimer.next THEN "true"
    ELSE "false"

\* The rotateCheck chosen by the constructor; a nil function in a literal.
rotateCheck ==
    CASE policy = "None" -> "false"
      [] policy = "FileSize" -> sizeRotateCheck
      [] policy \in {"Daily", "TimeLimit"} -> timedRotateCheck
      [] OTHER -> "panic"

\* A panic is recovered and the function returns the zero value, false.
LogRotateCheck == rotateCheck = "true"

\* A goroutine calls lf.LogRotateCheck(), which takes no lock and changes
\* nothing; the call is not numbered.
RotateCheckCall(t) ==
    /\ Usable
    /\ pc[t] = "idle"
    /\ last' = [NoResult EXCEPT !.op = "LogRotateCheck", !.by = t, !.ready = LogRotateCheck]
    /\ UNCHANGED << ctor, policy, currentFile, volNo, fileSizeLimit, reqSize, obs, lm, f, ltimer,
                    mu, pc, buf, cid, org, res, disk, now, start, calls, handles, swapped,
                    closedAt, acked >>

\* The deferred function of Write after Unlock and recover (lines 255-257):
\* it calls LogRotate, or Write returns.
WriteCheck(t) ==
    /\ pc[t] = "w_check"
    /\ IF policy = "FileSize" /\ LogRotateCheck
       THEN /\ pc' = [pc EXCEPT ![t] = "r_lock"]
            /\ org' = [org EXCEPT ![t] = "write"]
            /\ UNCHANGED << res, cid, last, acked >>
       ELSE /\ Return(t, res[t])
            /\ org' = org
    /\ UNCHANGED << ctor, policy, currentFile, volNo, fileSizeLimit, reqSize, obs, lm, f, ltimer, mu, buf,
                    disk, now, start, calls, handles, swapped, closedAt >>

(***************************************************************************)
(* LogRotate, lines 319-325, and timedRotate, lines 342-362.               *)
(***************************************************************************)
\* A goroutine calls lf.LogRotate().
RotateCall(t) ==
    /\ CanCall(t)
    /\ calls' = calls + 1
    /\ cid' = [cid EXCEPT ![t] = calls + 1]
    /\ res' = [res EXCEPT ![t] = [NoResult EXCEPT !.op = "LogRotate"]]
    /\ pc' = [pc EXCEPT ![t] = "r_lock"]
    /\ org' = [org EXCEPT ![t] = "manual"]
    /\ UNCHANGED << ctor, policy, currentFile, volNo, fileSizeLimit, reqSize, obs, lm, f, ltimer, mu, buf,
                    last, disk, now, start, handles, swapped, closedAt, acked >>

\* LogRotate returns to whoever called it: a goroutine, Write's deferred
\* function, or doTimerFunc, which recovers a panic and then skips line 104.
RotateReturn(p, fault) ==
    /\ org' = [org EXCEPT ![p] = "none"]
    /\ CASE org[p] = "timer" ->
              /\ pc' = [pc EXCEPT ![p] = IF fault THEN "idle" ELSE "cb_post"]
              /\ UNCHANGED << res, cid, last, acked >>
         [] org[p] = "write" ->
              Return(p, [res[p] EXCEPT !.fault = fault])
         [] OTHER ->
              Return(p, [res[p] EXCEPT !.fault = fault, !.rotated = ~fault])

\* lf.rotate is nil in a literal LogFile: calling it panics, the deferred
\* Unlock runs and the panic leaves LogRotate.
RotateNilFunc(p) ==
    /\ pc[p] = "r_lock"
    /\ LockFree
    /\ policy = "Invalid"
    /\ RotateReturn(p, TRUE)
    /\ UNCHANGED << ctor, policy, currentFile, volNo, fileSizeLimit, reqSize, obs, lm, f, ltimer, mu, buf,
                    disk, now, start, calls, handles, swapped, closedAt >>

\* A rotate for File that clears the name as closeFile does.
RotateStaticClears(p) ==
    /\ pc[p] = "r_lock"
    /\ LockFree
    /\ policy = "None"
    /\ currentFile' = 0
    /\ RotateReturn(p, FALSE)
    /\ UNCHANGED << ctor, policy, volNo, fileSizeLimit, reqSize, obs, lm, f, ltimer, mu, buf,
                    disk, now, start, calls, handles, swapped, closedAt >>
\* File's rotate (lines 104-106) returns true and does nothing.
RotateStatic(p) ==
    /\ pc[p] = "r_lock"
    /\ LockFree
    /\ policy = "None"
    /\ RotateReturn(p, FALSE)
    /\ UNCHANGED << ctor, policy, currentFile, volNo, fileSizeLimit, reqSize, obs, lm, f, ltimer, mu, buf,
                    disk, now, start, calls, handles, swapped, closedAt >>

\* lf.Lock() and timedRotate up to and including closeFile (line 347): the
\* handle is closed, lf.f and lf.currentFile are cleared.  closeFile's panic
\* (line 410) needs lf.f to be the nil interface, which a timedRotate finds
\* only in a literal LogFile, whose rotate is nil.
RotateClose(p) ==
    /\ pc[p] = "r_lock"
    /\ LockFree
    /\ policy \in {"FileSize", "Daily", "TimeLimit"}
    /\ mu' = p
    /\ handles' = HandlesAfterClose(f)
    /\ f' = NilHandle
    /\ currentFile' = 0
    /\ pc' = [pc EXCEPT ![p] = "r_open"]
    /\ UNCHANGED << ctor, policy, volNo, fileSizeLimit, reqSize, obs, lm, ltimer, buf, cid, org, res, last,
                    disk, now, start, calls, swapped, closedAt, acked >>

\* A timedRotate that resets the timer only when the new file was opened.
TimerAfterRotateIfOpened(ok) == IF ltimer.set /\ ok THEN TimerReset(ltimer) ELSE ltimer
\* timedRotate, lines 351-354: the timer, if there is one, is Reset whatever
\* openFile returned.
TimerAfterRotate(ok) == IF ltimer.set THEN TimerReset(ltimer) ELSE ltimer

\* A LogRotate that returns with the lock held.
DeferredUnlockSkipped(p) == p
\* The holder of the lock after LogRotate's deferred lf.Unlock() (line 321).
DeferredUnlock(p) == NoProc

\* The rest of timedRotate: openFile(lf.filenameGen()), the timer's Reset, and
\* LogRotate's deferred Unlock.
RotateOpen(p, ok) ==
    /\ pc[p] = "r_open"
    /\ volNo' = VolNoAfterGen
    /\ openFile(filenameGen, ok)
    /\ swapped' = (swapped \/ ok)
    /\ ltimer' = TimerAfterRotate(ok)
    /\ mu' = DeferredUnlock(p)
    /\ RotateReturn(p, FALSE)
    /\ UNCHANGED << ctor, policy, fileSizeLimit, reqSize, obs, lm, buf, now, start, calls, closedAt >>

(***************************************************************************)
(* Close, lines 282-296.                                                   *)
(***************************************************************************)
\* The error Close returns: lf.f.Close() fails on a nil or closed *os.File; on
\* the nil interface the call panics, is recovered, and err stays nil.
CloseError(h) == h.st \in {"invalid", "closed"}

\* A goroutine calls lf.Close(): Lock, the timer's Stop, lf.f.Close(), Unlock
\* and recover.
Close(t) ==
    /\ CanCall(t)
    /\ LockFree
    /\ calls' = calls + 1
    /\ ltimer' = IF ltimer.set THEN TimerStop(ltimer) ELSE ltimer
    /\ handles' = HandlesAfterClose(f)
    /\ f' = ClosedHandle(f)
    /\ last' = [NoResult EXCEPT !.op = "Close", !.by = t, !.err = CloseError(f)]
    /\ closedAt' = closedAt \cup {calls + 1}
    /\ UNCHANGED << ctor, policy, currentFile, volNo, fileSizeLimit, reqSize, obs, lm, mu, pc, buf, cid, org,
                    res, disk, now, start, swapped, acked >>

(***************************************************************************)
(* The timer's goroutine: time.AfterFunc starts doTimerFunc, lines 97-105, *)
(* whose callback is func() { _ = lf.LogRotate() }.                        *)
(***************************************************************************)
\* The runtime timer expires: it is no longer pending and doTimerFunc starts.
Fire(c) ==
    /\ ltimer.armed
    /\ now >= ltimer.due
    /\ pc[c] = "idle"
    /\ ltimer' = [ltimer EXCEPT !.armed = FALSE]
    /\ pc' = [pc EXCEPT ![c] = "r_lock"]
    /\ org' = [org EXCEPT ![c] = "timer"]
    /\ UNCHANGED << ctor, policy, currentFile, volNo, fileSizeLimit, reqSize, obs, lm, f, mu, buf, cid, res,
                    last, disk, now, start, calls, handles, swapped, closedAt, acked >>

\* lt.base = lt.next (line 104), after the callback has returned.
CbFinish(c) ==
    /\ pc[c] = "cb_post"
    /\ ltimer' = [ltimer EXCEPT !.base = ltimer.next]
    /\ pc' = [pc EXCEPT ![c] = "idle"]
    /\ UNCHANGED << ctor, policy, currentFile, volNo, fileSizeLimit, reqSize, obs, lm, f, mu, buf, cid, org,
                    res, last, disk, now, start, calls, handles, swapped, closedAt, acked >>

(***************************************************************************)
(* The specification.                                                      *)
(***************************************************************************)
Next ==
    \/ \E ok \in BOOLEAN : File(ok)
    \/ \E size \in Sizes, ok \in BOOLEAN : SizeLimitedFile(size, ok)
    \/ \E ok \in BOOLEAN : DailyFile(ok)
    \/ \E rt \in Cycles, ok \in BOOLEAN : TimedFile(rt, ok)
    \/ ZeroValue
    \/ Tick
    \/ \E t \in Callers, p \in Payloads : WriteLock(t, p)
    \/ \E t \in Callers : WriteEntryPanic(t)
    \/ \E t \in Callers : WriteEntryError(t)
    \/ \E t \in Callers : WriteEntryAppend(t)
    \/ \E t \in Callers : WriteCheck(t)
    \/ \E t \in Callers : RotateCall(t)
    \/ \E p \in Procs : RotateNilFunc(p)
    \/ \E p \in Procs : RotateStatic(p)
    \/ \E p \in Procs : RotateClose(p)
    \/ \E p \in Procs, ok \in BOOLEAN : RotateOpen(p, ok)
    \/ \E t \in Callers : Close(t)
    \/ \E c \in CbProcs : Fire(c)
    \/ \E c \in CbProcs : CbFinish(c)

Spec == Init /\ [][Next]_vars

(***************************************************************************)
(* The same program with its scheduling: a goroutine that is inside a call *)
(* and can take a step, or the timer's goroutine inside the callback,      *)
(* takes it in the end.  A goroutine that waits for lf.Lock() can take its *)
(* step whenever the lock is free.                                         *)
(***************************************************************************)
\* The steps of goroutine p inside a call.
Running(p) ==
    \/ WriteEntryPanic(p)
    \/ WriteEntryError(p)
    \/ WriteEntryAppend(p)
    \/ WriteCheck(p)
    \/ RotateNilFunc(p)
    \/ RotateStatic(p)
    \/ RotateClose(p)
    \/ \E ok \in BOOLEAN : RotateOpen(p, ok)
    \/ CbFinish(p)

LiveSpec == Init /\ [][Next]_vars /\ \A p \in Callers \cup CbProcs : WF_vars(Running(p))

(***************************************************************************)
(* One caller and the files of earlier runs.  A second specification: a    *)
(* single goroutine constructs a None or FileSize instance in a directory  *)
(* that holds any of the volumes SeqVols, one of them modified last, and   *)
(* calls Write, LogRotate and Close one after the other.                   *)
(***************************************************************************)
SeqVols == { 1, 2, logMaxVolNumber }
\* Sizes of the volumes found: one byte short of the high water mark of the
\* smallest limit, exactly at it, and one byte short of that limit (a volume
\* that an earlier run left when it rotated).
SeqPres ==
    { LogMinFileSize - logHighWaterMark - 1, LogMinFileSize - logHighWaterMark,
      LogMinFileSize - 1 }
SeqLayouts ==
    { << >> } \cup
    { [n \in S |-> [pre |-> p, data |-> << >>, mtime |-> IF n = newest THEN 1 ELSE 0]] :
          <<S, newest, p>> \in { x \in (SUBSET SeqVols) \X SeqVols \X SeqPres : x[2] \in x[1] } }
\* Sizes requested from SizeLimitedFile: below the minimum, the minimum, one
\* and a half times the minimum, the maximum, just above it, and twice it.
SeqSizes ==
    { 3 * Kbyte, LogMinFileSize, LogMinFileSize + (LogMinFileSize \div 2), LogMaxFileSize,
      LogMaxFileSize + 1, 2 * LogMaxFileSize }

SeqInit ==
    /\ ctor = "none"
    /\ policy = "Invalid"
    /\ currentFile = 0
    /\ volNo = 0
    /\ fileSizeLimit = 0
    /\ reqSize = 0
    /\ obs = NoObs
    /\ lm = NoMgr
    /\ f = NilHandle
    /\ ltimer = NoTimer
    /\ mu = NoProc
    /\ pc = [p \in Procs |-> "idle"]
    /\ buf = [p \in Procs |-> << >>]
    /\ cid = [p \in Procs |-> 0]
    /\ org = [p \in Procs |-> "none"]
    /\ res = [p \in Procs |-> NoResult]
    /\ last = NoResult
    /\ disk \in SeqLayouts
    /\ now \in StartTimes
    /\ start = now
    /\ calls = 0
    /\ handles = 0
    /\ swapped = FALSE
    /\ closedAt = {}
    /\ acked = {}

SeqNext ==
    \/ \E ok \in BOOLEAN : File(ok)
    \/ \E size \in SeqSizes, ok \in BOOLEAN : SizeLimitedFile(size, ok)
    \/ \E p \in Payloads : WriteLock("t1", p)
    \/ WriteEntryError("t1")
    \/ WriteEntryAppend("t1")
    \/ WriteCheck("t1")
    \/ RotateCheckCall("t1")
    \/ RotateCall("t1")
    \/ RotateStatic("t1")
    \/ RotateClose("t1")
    \/ \E ok \in BOOLEAN : RotateOpen("t1", ok)
    \/ Close("t1")

SeqSpec == SeqInit /\ [][SeqNext]_vars

(***************************************************************************)
(* A stand-alone LogTimer.  A fourth specification: one goroutine makes a  *)
(* timer with a callback of its own, calls Stop and Reset and lets time    *)
(* pass; the runtime starts doTimerFunc when the timer expires, and the    *)
(* callback returns or panics.                                             *)
(***************************************************************************)
\* The variables of LogFile, which a stand-alone timer leaves alone.
fileVars == << policy, currentFile, volNo, fileSizeLimit, reqSize, lm, f, mu, buf, cid, org,
               res, last, disk, start, handles, swapped, closedAt, acked >>
\* Clock values at which the timer is made: on the minute, half a minute past
\* it, and half a minute before midnight.
TimerStarts == { 0, Minute \div 2, Day - 1 }
\* Cycles asked for: half a minute, a minute, a minute and a half.
TimerCycles == { Minute \div 2, Minute, Minute + (Minute \div 2) }

TimerInit ==
    /\ ctor = "none"
    /\ policy = "Invalid"
    /\ currentFile = 0
    /\ volNo = 0
    /\ fileSizeLimit = 0
    /\ reqSize = 0
    /\ obs = NoObs
    /\ lm = NoMgr
    /\ f = NilHandle
    /\ ltimer = NoTimer
    /\ mu = NoProc
    /\ pc = [p \in Procs |-> "idle"]
    /\ buf = [p \in Procs |-> << >>]
    /\ cid = [p \in Procs |-> 0]
    /\ org = [p \in Procs |-> "none"]
    /\ res = [p \in Procs |-> NoResult]
    /\ last = NoResult
    /\ disk = << >>
    /\ now \in TimerStarts
    /\ start = now
    /\ calls = 0
    /\ handles = 0
    /\ swapped = FALSE
    /\ closedAt = {}
    /\ acked = {}

\* The observations after an arming at the present time.
Armed(o, reset) ==
    [o EXCEPT !.armings = @ + 1, !.armedAt = now, !.byReset = reset,
              !.cancelled = IF ltimer.armed THEN @ + 1 ELSE @]

NewTimerCall(dur) ==
    /\ ctor = "none"
    /\ ctor' = "timer"
    /\ ltimer' = NewTimer(dur)
    /\ obs' = Armed(obs, FALSE)
    /\ UNCHANGED << fileVars, pc, now, calls >>

NewLocalTimerCall(dur) ==
    /\ ctor = "none"
    /\ ctor' = "timer"
    /\ ltimer' = NewLocalTimer(dur)
    /\ obs' = Armed(obs, FALSE)
    /\ UNCHANGED << fileVars, pc, now, calls >>

NewDailyTimerCall ==
    /\ ctor = "none"
    /\ ctor' = "timer"
    /\ ltimer' = NewDailyTimer
    /\ obs' = Armed(obs, FALSE)
    /\ UNCHANGED << fileVars, pc, now, calls >>

\* A channel that time.NewTimer would have given the timer.
TimerChanSet == TRUE
\* lt.timer.C: time.AfterFunc makes a timer without a channel.
TimerChan == FALSE
\* Stop's receive from lt.timer.C (line 70) waits for ever when timer.Stop()
\* returned false for a timer that is stopped already.
StopBlocks(lt) == ~lt.armed /\ TimerChan

\* The user of the timer can call it.
CanCallTimer == ctor = "timer" /\ ~obs.blocked /\ calls < MaxCalls

\* lt.Stop()
StopCall ==
    /\ CanCallTimer
    /\ calls' = calls + 1
    /\ IF StopBlocks(ltimer)
       THEN /\ obs' = [obs EXCEPT !.blocked = TRUE]
            /\ ltimer' = ltimer
       ELSE /\ ltimer' = TimerStop(ltimer)
            /\ obs' = [obs EXCEPT !.cancelled = IF ltimer.armed THEN @ + 1 ELSE @]
    /\ UNCHANGED << fileVars, ctor, pc, now >>

\* lt.Reset()
ResetCall ==
    /\ CanCallTimer
    /\ calls' = calls + 1
    /\ IF StopBlocks(ltimer)
       THEN /\ obs' = [obs EXCEPT !.blocked = TRUE]
            /\ ltimer' = ltimer
       ELSE /\ ltimer' = TimerReset(ltimer)
            /\ obs' = Armed(obs, TRUE)
    /\ UNCHANGED << fileVars, ctor, pc, now >>

TimerTick ==
    /\ ctor = "timer"
    /\ now < start + MaxSpan
    /\ now' = now + 1
    /\ UNCHANGED << fileVars, ctor, ltimer, obs, pc, calls >>

\* A runtime timer that stays armed after it has expired.
ExpiredStaysArmed(lt) == lt
\* The runtime timer of time.AfterFunc after it has expired: it runs the
\* function once and is no longer active.
Expired(lt) == [lt EXCEPT !.armed = FALSE]

\* The timer expires: the runtime starts lt.doTimerFunc in a goroutine of its
\* own, which calls lt.cb().
TimerFire(c) ==
    /\ ctor = "timer"
    /\ pc[c] = "idle"
    /\ ltimer.armed
    /\ now >= ltimer.due
    /\ ltimer' = Expired(ltimer)
    /\ pc' = [pc EXCEPT ![c] = "cb_run"]
    /\ obs' = [obs EXCEPT !.fired = @ + 1]
    /\ UNCHANGED << fileVars, ctor, now, calls >>

\* lt.cb() returns: lt.base = lt.next (line 104).
CallbackReturn(c) ==
    /\ pc[c] = "cb_run"
    /\ pc' = [pc EXCEPT ![c] = "idle"]
    /\ ltimer' = [ltimer EXCEPT !.base = ltimer.next]
    /\ UNCHANGED << fileVars, ctor, obs, now, calls >>

\* A doTimerFunc without the deferred recover.
doTimerFuncUnrecovered == FALSE
\* doTimerFunc's deferred function recovers the panic of lt.cb() (lines 98-102).
doTimerFuncRecovers == TRUE

\* lt.cb() panics: line 104 is skipped.
CallbackPanic(c) ==
    /\ pc[c] = "cb_run"
    /\ pc' = [pc EXCEPT ![c] = "idle"]
    /\ obs' = [obs EXCEPT !.panics = @ + 1, !.fault = @ \/ ~doTimerFuncRecovers]
    /\ UNCHANGED << fileVars, ctor, ltimer, now, calls >>

TimerNext ==
    \/ \E dur \in TimerCycles : NewTimerCall(dur)
    \/ \E dur \in TimerCycles : NewLocalTimerCall(dur)
    \/ NewDailyTimerCall
    \/ StopCall
    \/ ResetCall
    \/ TimerTick
    \/ \E c \in CbProcs : TimerFire(c)
    \/ \E c \in CbProcs : CallbackReturn(c)
    \/ \E c \in CbProcs : CallbackPanic(c)

TimerSpec == TimerInit /\ [][TimerNext]_vars

(***************************************************************************)
(* The log manager, Log.  A fifth specification: one goroutine makes a     *)
(* manager over LogFiles, adds LogFiles, sets the filter, logs events and  *)
(* closes it.  A LogFile is seen here through what its Write gives back.   *)
(***************************************************************************)
InvalidSeverity == -1
Emergency == 1
Warning == 5
Debug == 8
SeverityMinLevel == Emergency
SeverityMaxLevel == Debug
severityToString ==
    << "Invalid", "EMERG", "ALERT", "CRIT", "ERROR", "WARN", "NOTIC", "INFO", "DEBUG" >>
\* The keys of stringToSeverity.
IsValidSeverity(str) ==
    \E v \in SeverityMinLevel..SeverityMaxLevel : severityToString[v + 1] = str

\* The severities passed to LogEvent and SetFilter.
Severities == { InvalidSeverity, 0, Emergency, Warning, Debug, Debug + 1 }
\* The LogFiles given to a manager: made by File with the file opened, made by
\* File whose open failed (lf.f holds a nil *os.File), and the literal
\* &LogFile{} (lf.f is the nil interface).
SinkKinds == { "open", "invalid", "nil" }

\* No EventMsg: newEventMsg's result after it recovered a panic.
NilMsg == [nil |-> TRUE, Sev |-> ""]
\* newEventMsg: sev.String() indexes severityToString, which panics outside
\* the array; the deferred function recovers and the result is nil.
newEventMsg(sev) ==
    IF sev + 1 \in DOMAIN severityToString
    THEN [nil |-> FALSE, Sev |-> severityToString[sev + 1]]
    ELSE NilMsg
\* validateEventMsg, for an em that is not nil.
validateEventMsg(em) ==
    IF IsValidSeverity(em.Sev) THEN em ELSE [em EXCEPT !.Sev = severityToString[Warning + 1]]
\* The record that l.formatter.Format gives for the n-th event.
Format(em, n) == << n, em.Sev >>

\* LogFile.Write on module m fails: the append failed, or lf.f is a nil
\* *os.File, or lf.f.Write panicked on the nil interface and was recovered.
WriteFails(m, ok) == m.kind # "open" \/ ~ok
\* Module m after Write(rec).
SinkWrite(m, rec, ok) ==
    IF WriteFails(m, ok) THEN m ELSE [m EXCEPT !.recs = Append(@, rec)]

\* A loop that ends at the first Write that gives an error.
ReachedUntilError(mods, oks, i) == \A j \in 1..(i - 1) : ~WriteFails(mods[j], oks[j])
\* LogEvent's loop over l.logModules reaches module i: it ignores what
\* mod.Write returns.
Reached(mods, oks, i) == i \in DOMAIN mods

MgrInit == TimerInit /\ now = 0

mgrRest == << ctor, policy, currentFile, volNo, fileSizeLimit, reqSize, obs, f, ltimer, mu, pc,
              buf, cid, org, res, last, disk, now, start, calls, handles, swapped, closedAt,
              acked >>

\* LogManger(app, lwc)
LogManger(k) ==
    /\ ~lm.made
    /\ lm' = [NoMgr EXCEPT !.made = TRUE, !.filter = Debug,
                           !.mods = << [kind |-> k, recs |-> << >>] >>]
    /\ UNCHANGED mgrRest

\* l.SetFilter(sev): the test is made on l.filter, not on sev.
SetFilter(sev) ==
    /\ lm.made
    /\ IF lm.filter < SeverityMinLevel \/ lm.filter > SeverityMaxLevel
       THEN lm' = [lm EXCEPT !.out = [NoOut EXCEPT !.sev = sev, !.err = TRUE]]
       ELSE lm' = [lm EXCEPT !.filter = sev, !.out = [NoOut EXCEPT !.sev = sev]]
    /\ UNCHANGED mgrRest

\* l.AddLogger(lwc)
AddLogger(k) ==
    /\ lm.made
    /\ Len(lm.mods) < MaxSinks
    /\ lm' = [lm EXCEPT !.mods = Append(@, [kind |-> k, recs |-> << >>])]
    /\ UNCHANGED mgrRest

\* l.Close(): every module is closed and l.logModules = nil.
LogClose ==
    /\ lm.made
    /\ lm.mods # << >>
    /\ lm' = [lm EXCEPT !.mods = << >>]
    /\ UNCHANGED mgrRest

\* l.LogEvent(sev, ...); oks says for each module whether its append succeeds.
LogEvent(sev, oks) ==
    /\ lm.made
    /\ lm.events < MaxEvents
    /\ LET n == lm.events + 1
           em == newEventMsg(sev)
           rec == Format(validateEventMsg(em), n)
           all == { i \in DOMAIN lm.mods : Reached(lm.mods, oks, i) }
       IN lm' = CASE sev > lm.filter ->
                       [lm EXCEPT !.events = n, !.out = [NoOut EXCEPT !.sev = sev]]
                  [] sev <= lm.filter /\ em.nil ->
                       \* validateEventMsg(nil) panics (line 23) and nothing recovers
                       [lm EXCEPT !.events = n,
                                  !.out = [NoOut EXCEPT !.sev = sev, !.fault = TRUE]]
                  [] OTHER ->
                       [lm EXCEPT !.events = n,
                                  !.mods = [i \in DOMAIN lm.mods |->
                                              IF i \in all
                                              THEN SinkWrite(lm.mods[i], rec, oks[i])
                                              ELSE lm.mods[i]],
                                  !.out = [NoOut EXCEPT
                                             !.sev = sev, !.tried = all,
                                             !.failed = { i \in all :
                                                            WriteFails(lm.mods[i], oks[i]) }]]
    /\ UNCHANGED mgrRest

MgrNext ==
    \/ \E k \in SinkKinds : LogManger(k)
    \/ \E sev \in Severities : SetFilter(sev)
    \/ \E k \in SinkKinds : AddLogger(k)
    \/ LogClose
    \/ \E sev \in Severities : \E oks \in [1..MaxSinks -> BOOLEAN] : LogEvent(sev, oks)

MgrSpec == MgrInit /\ [][MgrNext]_vars

(***************************************************************************)
(* The rotation check of the timer policies.  A sixth specification: a log *)
(* made by DailyFile or TimedFile in an empty directory, the clock, the    *)
(* rotations that the timer starts, and a goroutine that calls             *)
(* LogRotateCheck.                                                         *)
(***************************************************************************)
CheckInit == TimerInit

CheckTick ==
    /\ Usable
    /\ now < start + MaxSpan
    /\ now' = now + 1
    /\ UNCHANGED << fileVars, ctor, ltimer, obs, pc, calls >>

CheckNext ==
    \/ \E ok \in BOOLEAN : DailyFile(ok)
    \/ \E rt \in TimerCycles, ok \in BOOLEAN : TimedFile(rt, ok)
    \/ CheckTick
    \/ RotateCheckCall("t1")
    \/ \E c \in CbProcs : Fire(c)
    \/ \E c \in CbProcs : RotateClose(c)
    \/ \E c \in CbProcs, ok \in BOOLEAN : RotateOpen(c, ok)
    \/ \E c \in CbProcs : CbFinish(c)

CheckSpec == CheckInit /\ [][CheckNext]_vars

(***************************************************************************)
(* Three writers.  A third specification: three goroutines call Write on a *)
(* size-limited file whose first volume is one byte short of the high      *)
(* water mark.                                                             *)
(***************************************************************************)
LagInit ==
    /\ SeqInit
    /\ disk = (1 :> [pre |-> LogMinFileSize - logHighWaterMark - 1, data |-> << >>, mtime |-> 1])

LagNext ==
    \/ \E size \in Sizes, ok \in BOOLEAN : SizeLimitedFile(size, ok)
    \/ \E t \in LagCallers, p \in Payloads : WriteLock(t, p)
    \/ \E t \in LagCallers : WriteEntryError(t)
    \/ \E t \in LagCallers : WriteEntryAppend(t)
    \/ \E t \in LagCallers : WriteCheck(t)
    \/ \E t \in LagCallers : RotateClose(t)
    \/ \E t \in LagCallers, ok \in BOOLEAN : RotateOpen(t, ok)

LagSpec == LagInit /\ [][LagNext]_vars

(***************************************************************************)
(* Properties.                                                             *)
(***************************************************************************)
\* The bytes call number id has appended to file n, and the bytes of a
\* sequence of tagged bytes.
CallBytes(n, id) == LET ByCall(x) == x.c = id IN SelectSeq(disk[n].data, ByCall)
Chars(d) == [i \in 1..Len(d) |-> d[i].b]
CallsIn(n) == { disk[n].data[i].c : i \in 1..Len(disk[n].data) }
\* A whole record: no newline but the one that ends it.
WholeRecord(r) ==
    /\ r # << >>
    /\ r[Len(r)] = NL
    /\ \A i \in 1..(Len(r) - 1) : r[i] # NL
\* The caller that is appending the record of call id, if any.
Appending(id) == { t \in Callers : cid[t] = id /\ pc[t] = "w_entry" }

C2_AtMostOneHandle ==
    /\ handles <= 1
    /\ handles = (IF f.st = "open" THEN 1 ELSE 0)

\* A rotation has closed one handle and opened another.
C2_Witness == swapped /\ handles = 1 /\ f.st = "open"

\* A goroutine between Lock and Unlock of Write or LogRotate.
InCriticalSection(p) == pc[p] \in {"w_entry", "r_open"}
\* No two goroutines are in a critical section, and the one that is holds
\* the mutex.
OneInCriticalSection ==
    /\ Cardinality({ p \in Procs : InCriticalSection(p) }) <= 1
    /\ \A p \in Procs : InCriticalSection(p) <=> mu = p
\* Between closeFile and openFile of a rotation no Write is at its append.
NoHalfSwappedWrite ==
    (\E p \in Procs : pc[p] = "r_open") =>
        /\ f.st = "nil"
        /\ \A t \in Callers : pc[t] # "w_entry"

\* C3: at most one goroutine is between Lock and Unlock of Write or LogRotate,
\* it is the holder of the mutex; while a rotation has closed the old handle
\* and not yet installed the new one no Write is at its append; and Close runs
\* from Lock to Unlock only while no goroutine is in such a section.
C3_MutualExclusion ==
    /\ [](OneInCriticalSection /\ NoHalfSwappedWrite)
    /\ [][ closedAt' # closedAt =>
               /\ \A p \in Procs : ~InCriticalSection(p)
               /\ \A p \in Procs : pc'[p] = pc[p] ]_vars

\* A rotation is between closeFile and openFile while the timer's goroutine
\* waits for the lock.
C3_Witness ==
    /\ \E t \in Callers : pc[t] = "r_open"
    /\ \E c \in CbProcs : pc[c] = "r_lock"

\* C4: the record of every Write that returned a nil error is on disk exactly
\* once, in exactly one file, whatever rotations happened since.
C4_AckedRecordsKept ==
    \A a \in acked :
        \E n \in DOMAIN disk :
            /\ Chars(CallBytes(n, a.id)) = a.rec
            /\ \A m \in DOMAIN disk \ {n} : CallBytes(m, a.id) = << >>

\* An acknowledged record lies in a file that a rotation has left behind.
C4_Witness ==
    /\ swapped
    /\ f.st = "open"
    /\ \E a \in acked : \E n \in DOMAIN disk \ {currentFile} : a.id \in CallsIn(n)

\* C5 as claimed: a constructor whose open failed has returned (nil, error),
\* with no handle open and no timer armed.  ctor is "failed" when it returned
\* so and "blocked" when it waits for the lock it holds itself.
C5_FailedConstructorReturns ==
    ctor \in {"failed", "blocked"} =>
        /\ ctor = "failed"
        /\ mu = NoProc
        /\ handles = 0
        /\ ~ltimer.armed

C7_NoTimerRotationAfterClose ==
    [][ \A c \in CbProcs :
            (closedAt # {} /\ pc'[c] # pc[c]) =>
                /\ f'.st = "open" => f.st = "open"
                /\ ltimer'.armed => ltimer.armed ]_vars

\* A call started after a Close had returned.
Later(t) == \E c \in closedAt : cid[t] > c

\* C8 as claimed: no step of a Write or LogRotate called after Close has
\* returned opens a handle, changes the current file or arms the timer.
C8_ClosedIsTerminal ==
    [][ \A t \in Callers :
            (Later(t) /\ pc'[t] # pc[t]) =>
                /\ f'.st = "open" => f.st = "open"
                /\ currentFile' = currentFile
                /\ ltimer'.armed => ltimer.armed ]_vars

\* C9: every Close returns without a fault, with the lock free, the timer
\* stopped and no handle open; a Close of an instance whose handle is not open
\* changes nothing but that.
C9_CloseIdempotent ==
    [][ closedAt' # closedAt =>
            /\ ~last'.fault
            /\ mu' = NoProc
            /\ ~ltimer'.armed
            /\ f'.st # "open"
            /\ handles' = 0
            /\ f.st # "open" =>
                   /\ f' = f
                   /\ currentFile' = currentFile
                   /\ handles' = handles
                   /\ disk' = disk ]_vars

\* Close has returned twice.
C9_Witness == Cardinality(closedAt) >= 2 /\ last.op = "Close" /\ f.st = "closed"

\* C10 as claimed: once Close has returned the current file name is empty.
C10_CloseClearsFilename == closedAt # {} => currentFile = 0

\* C11 as claimed: whenever the instance holds a handle (lf.f is not nil), the
\* current path is not empty, and the file of that name exists and is open
\* through the handle.
C11_HandleImpliesOpenFile ==
    (Usable /\ f # NilHandle) =>
        /\ currentFile # 0
        /\ Exists(currentFile)
        /\ f.st = "open"
        /\ f.file = currentFile

\* A step in which a goroutine of the timer starts the callback, and one in
\* which a rotation ends (it calls LogTimer.Reset).
CallbackStarts == \E c \in CbProcs : pc[c] = "idle" /\ pc'[c] # "idle"
ResetStep == \E p \in Procs : pc[p] = "r_open" /\ pc'[p] # "r_open"

C13_NextWriteRotates ==
    [][ \A t \in Callers :
            ( /\ res[t].op = "Write" /\ res[t].due
              /\ pc[t] # "idle" /\ pc'[t] = "idle"
              /\ f'.st = "open" )
            => currentFile' # res[t].name ]_vars

\* C14: no step of a None-policy instance, and so no Write, changes the name
\* LogFilename() returns: it stays the one set by the constructor.
C14_StaticNameFixed ==
    [][ (policy = "None" /\ ctor = "ok") => currentFile' = currentFile ]_vars

\* Writes on a None-policy file have returned, one with its record written and
\* the last one with an error, and the name is still that of volume 1.
C14_Witness ==
    /\ policy = "None"
    /\ acked # {}
    /\ last.op = "Write" /\ last.err
    /\ currentFile = 1

\* The number of bytes appended to volume n when it became due for rotation
\* (sizeRotateCheck's test), and the calls that appended a record to it after
\* the record that made it due.
DuePoint(n) == fileSizeLimit - logHighWaterMark - disk[n].pre + 1
FurtherRecords(n) ==
    LET d == disk[n].data
        k == DuePoint(n)
    IN IF k < 1 \/ k > Len(d) THEN {}
       ELSE { d[i].c : i \in { j \in (k + 1)..Len(d) : d[j].c # d[k].c } }

\* C15 as claimed: after the Write that made a volume of a size-limited log due
\* for rotation, at most one further record is appended to that volume.
C15_RotationLagOneWrite ==
    policy = "FileSize" => \A n \in DOMAIN disk : Cardinality(FurtherRecords(n)) <= 1

\* SizeLimitedFile has returned an instance.
SizeLimited == ctor = "ok" /\ policy = "FileSize"

\* C16 as claimed: the size limit SizeLimitedFile stores lies between
\* LogMinFileSize and LogMaxFileSize, both included, whatever size was asked.
C16_LimitWithinBounds ==
    SizeLimited => (LogMinFileSize <= fileSizeLimit /\ fileSizeLimit <= LogMaxFileSize)

\* C17 as claimed: a requested size that is not a multiple of LogMinFileSize
\* gives as limit the next larger multiple of LogMinFileSize.
C17_RoundedUpToUnit ==
    (SizeLimited /\ reqSize % LogMinFileSize # 0) =>
        fileSizeLimit = ((reqSize \div LogMinFileSize) + 1) * LogMinFileSize

\* C18 as claimed: every requested size above LogMaxFileSize gives the limit
\* LogMinFileSize.
C18_AboveMaxGivesMin ==
    (SizeLimited /\ reqSize > LogMaxFileSize) => fileSizeLimit = LogMinFileSize

\* An instance with numbered volumes, and the last volume being the one most
\* recently modified.
Static == ctor = "ok" /\ policy \in {"None", "FileSize"}
LastVolumeNewest ==
    /\ logMaxVolNumber \in DOMAIN disk
    /\ \A m \in DOMAIN disk \ {logMaxVolNumber} :
           disk[m].mtime < disk[logMaxVolNumber].mtime

\* C19: the volume number of a None or FileSize instance is between 1 and
\* logMaxVolNumber in every state; the number a rotation derives from the
\* volumes on disk is (n mod logMaxVolNumber) + 1 for one of them, and it is 1
\* when the last volume is the most recent one.
C19_VolumeNumberRange ==
    /\ [](Static => volNo \in 1..logMaxVolNumber)
    /\ [][ (Static /\ ResetStep /\ policy = "FileSize") =>
               /\ \E n \in DOMAIN disk : volNo' = (n % logMaxVolNumber) + 1
               /\ LastVolumeNewest => volNo' = 1 ]_vars

\* A rotation has followed volume logMaxVolNumber by volume 1.
C19_Witness ==
    /\ Static /\ policy = "FileSize"
    /\ LastVolumeNewest
    /\ last.op = "LogRotate" /\ last.rotated
    /\ f = [st |-> "open", file |-> 1]
    /\ volNo = 1

\* C20 as claimed: a constructor that finds volumes on disk opens the volume
\* whose number the scan of those files gives, and volume 1 only when it finds
\* none.
C20_ConstructionScansVolumes ==
    [][ (ctor = "none" /\ ctor' = "ok" /\ policy' \in {"None", "FileSize"}) =>
            volNo' = (IF disk = << >> THEN 1 ELSE calcNextVolumeNo) ]_vars

\* C21 as claimed: right after NewTimer, NewLocalTimer or NewDailyTimer the
\* trigger time is after the present time and one cycle after the base.
C21_TriggerTimeAfterNow ==
    [][ (ctor = "none" /\ ctor' = "timer") =>
            /\ ltimer'.next > now'
            /\ ltimer'.next = ltimer'.base + ltimer'.d ]_vars

\* Steps of a stand-alone timer's user: a Reset that returned, and a Stop (or
\* a call that did not get past Stop).
TimerResetStep == calls' = calls + 1 /\ obs'.armings = obs.armings + 1
TimerStopStep == calls' = calls + 1 /\ obs'.armings = obs.armings

\* C22: Reset leaves the timer armed for one cycle from the moment of the call,
\* whatever was pending before; the callback of a timer armed by Reset starts
\* only while that arming is pending and not before one cycle has passed
\* since the Reset, and its start ends the arming.
C22_ResetRearmsOneCycle ==
    [][ /\ TimerResetStep => (ltimer'.armed /\ ltimer'.due = now + ltimer.d)
        /\ (CallbackStarts /\ obs.byReset) =>
                /\ ltimer.armed /\ ~ltimer'.armed
                /\ now >= obs.armedAt + ltimer.d ]_vars

\* A Reset cancelled the pending firing of the constructor; the callback runs
\* exactly one cycle after the Reset, for the first time.
C22_Witness ==
    /\ ctor = "timer"
    /\ obs.byReset
    /\ obs.cancelled = 1
    /\ obs.fired = 1
    /\ obs.armedAt > start
    /\ now = obs.armedAt + ltimer.d
    /\ \E c \in CbProcs : pc[c] = "cb_run"

\* C23: every arming (construction or Reset) is accounted for by one start of
\* the callback, by one cancellation (Stop or Reset while pending), or is still
\* pending: the callback has started at most once per arming, exactly k times
\* after k armings none of which was cancelled or is pending, and at most once
\* without a Reset.
C23_OneShot ==
    ctor = "timer" =>
        /\ obs.fired + obs.cancelled + (IF ltimer.armed THEN 1 ELSE 0) = obs.armings
        /\ obs.armings = 1 => obs.fired <= 1

\* The timer was Reset after its first firing and has fired a second time.
C23_Witness ==
    /\ ctor = "timer"
    /\ obs.armings = 2
    /\ obs.cancelled = 0
    /\ obs.fired = 2
    /\ ~ltimer.armed

\* C24: no call of Stop waits, whether the timer is pending, stopped or has
\* fired; Stop leaves the timer unarmed, and a Stop of an unarmed timer
\* changes nothing.
C24_StopNeverBlocks ==
    /\ [](~obs.blocked)
    /\ [][ TimerStopStep =>
             /\ ~ltimer'.armed
             /\ ~ltimer.armed => ltimer' = ltimer ]_vars

\* The timer has fired and Stop has been called twice since construction,
\* with no Reset.
C24_Witness ==
    /\ ctor = "timer"
    /\ obs.armings = 1
    /\ obs.fired = 1
    /\ calls >= 2
    /\ ~ltimer.armed
    /\ ~obs.blocked

\* C25: a panic of the callback never leaves doTimerFunc, and a Reset after
\* it arms the timer again.
C25_CallbackFaultCaught ==
    /\ [](~obs.fault)
    /\ [][ (TimerResetStep /\ obs.panics > 0) => ltimer'.armed ]_vars

\* The callback panicked, the timer was Reset, and the callback runs again.
C25_Witness ==
    /\ ctor = "timer"
    /\ obs.panics = 1
    /\ obs.byReset
    /\ obs.fired = 2
    /\ ~obs.fault
    /\ \E c \in CbProcs : pc[c] = "cb_run"

\* C26 as claimed: a LogRotate called by a goroutine returns true exactly when
\* it closed the handle and opened the file its filename generator named.
C26_RotateTrueIffRotated ==
    [][ \A t \in Callers :
            (org[t] = "manual" /\ org'[t] = "none") =>
                (last'.rotated <=> /\ pc[t] = "r_open"
                                   /\ f'.st = "open"
                                   /\ f'.file = currentFile') ]_vars

\* A step that is a call of LogEvent, and the modules that took its record.
LogEventStep == lm'.events = lm.events + 1
TookRecord(i) ==
    /\ Len(lm'.mods[i].recs) = Len(lm.mods[i].recs) + 1
    /\ lm'.mods[i].recs[Len(lm'.mods[i].recs)][1] = lm'.events

C28_DeliveredIffNotAboveFilter ==
    [][ LogEventStep =>
            IF lm'.out.sev <= lm.filter
            THEN /\ ~lm'.out.fault
                 /\ lm'.out.tried = DOMAIN lm.mods
                 /\ \A i \in DOMAIN lm.mods \ lm'.out.failed : TookRecord(i)
            ELSE /\ lm'.out.tried = {}
                 /\ lm'.mods = lm.mods ]_vars

\* A step in which a call of LogRotateCheck returns.
CheckReturns == last' # last /\ last'.op = "LogRotateCheck"

\* C29: LogRotateCheck on a size-limited file returns true exactly when the
\* current file exists and its size plus 2048 is greater than the limit; on a
\* file made by File it returns false.
C29_SizeCheck ==
    [][ CheckReturns =>
            /\ policy = "FileSize" =>
                 (last'.ready <=>
                    /\ currentFile \in DOMAIN disk
                    /\ disk[currentFile].pre + Len(disk[currentFile].data) + 2048
                         > fileSizeLimit)
            /\ policy = "None" => ~last'.ready ]_vars

\* LogRotateCheck returned false on a size-limited file whose size plus the
\* high water mark is the limit exactly.
C29_Witness ==
    /\ policy = "FileSize"
    /\ last.op = "LogRotateCheck"
    /\ ~last.ready
    /\ Exists(currentFile)
    /\ FileSize(currentFile) + logHighWaterMark = fileSizeLimit

\* C30 as claimed: LogRotateCheck on a log made by DailyFile or TimedFile
\* returns true exactly when the present time rounded to the minute is the
\* timer's trigger time or later.
C30_TimedCheckAtOrPast ==
    [][ (CheckReturns /\ policy \in {"Daily", "TimeLimit"}) =>
            (last'.ready <=> RoundMinute(now) >= ltimer.next) ]_vars

\* C31 as claimed: LogRotateCheck on a size-limited log whose current file
\* cannot be examined (os.Stat fails) returns true.
C31_StatFailureMeansDue ==
    [][ (CheckReturns /\ policy = "FileSize" /\ ~Exists(currentFile)) =>
            last'.ready ]_vars

\* The volumes on disk that no other volume is older than.
OldestVolumes == { n \in DOMAIN disk : \A m \in DOMAIN disk : disk[n].mtime <= disk[m].mtime }

\* C32 as claimed: a rotation of a size-limited log that finds volumes on disk
\* takes as next volume number (v mod logMaxVolNumber) + 1 for a volume v with
\* the oldest modification time.
C32_NextVolumeFromOldest ==
    [][ (Static /\ ResetStep /\ policy = "FileSize" /\ disk # << >>) =>
            \E v \in OldestVolumes : volNo' = (v % logMaxVolNumber) + 1 ]_vars

\* C33 as claimed: whenever a stand-alone timer is armed, its trigger time is
\* its base plus its cycle.
C33_TriggerIsBasePlusCycle ==
    (ctor = "timer" /\ ltimer.armed) => ltimer.next = ltimer.base + ltimer.d

C35_DailyFiresAtMidnight ==
    [][ \A c \in CbProcs :
            /\ (policy = "Daily" /\ ltimer.base < ltimer.next
                  /\ pc[c] = "idle" /\ pc'[c] # "idle") => now >= ltimer.next
            /\ (policy = "Daily" /\ ltimer.base < ltimer.next
                  /\ pc[c] = "r_open" /\ pc'[c] # "r_open" /\ f'.st = "open") =>
                   f'.file = (ltimer.next \div Day) + 1 ]_vars

\* A step that is a call of SetFilter.
SetFilterStep == lm.made /\ lm' # lm /\ lm'.events = lm.events /\ lm'.mods = lm.mods

\* C36 as claimed: SetFilter with a severity from Emergency to Debug returns no
\* error and makes it the filter; with any other severity it returns an error
\* and leaves the filter as it was.
C36_SetFilterValidatesArgument ==
    [][ SetFilterStep =>
            IF lm'.out.sev \in SeverityMinLevel..SeverityMaxLevel
            THEN ~lm'.out.err /\ lm'.filter = lm'.out.sev
            ELSE lm'.out.err /\ lm'.filter = lm.filter ]_vars

\* C37 as claimed: a rotation that a Write started closes an open volume only
\* when that volume is due, so two writers that saw the same volume due do
\* not rotate one after the other.
C37_OneRotationPerDueFile ==
    [][ \A t \in LagCallers :
            (org[t] = "write" /\ pc[t] = "r_lock" /\ pc'[t] = "r_open" /\ f.st = "open") =>
                FileSize(f.file) + logHighWaterMark > fileSizeLimit ]_vars

\* C38: on an instance that a constructor returned, the lock is free whenever
\* no goroutine is inside a call or a callback, and every goroutine that is
\* inside a Write, a LogRotate or the timer's callback leaves it.
C38_CallsReturn ==
    /\ []((ctor = "ok" /\ \A p \in Procs : pc[p] = "idle") => mu = NoProc)
    /\ \A p \in Callers \cup CbProcs :
           (ctor = "ok" /\ pc[p] # "idle") ~> (pc[p] = "idle")

\* A Write of one goroutine waits in its deferred LogRotate for the lock that
\* the rotation of another holds.
C38_Witness ==
    /\ ctor = "ok"
    /\ \E t, u \in Callers :
          /\ t # u
          /\ pc[t] = "r_lock" /\ org[t] = "write"
          /\ pc[u] = "r_open" /\ mu = u

\* C39 as claimed: while an instance that a constructor returned has not been
\* closed, lf.currentFile, which LogFilename() returns without taking the
\* lock, is never the empty string.
C39_FilenameNeverEmpty ==
    (ctor = "ok" /\ closedAt = {}) => currentFile # 0

\* C40 as claimed: no volume that a size-limited log with one writer has
\* appended to is larger than the size limit.
C40_VolumeWithinLimit ==
    SizeLimited =>
        \A n \in DOMAIN disk : disk[n].data # << >> => FileSize(n) <= fileSizeLimit

====
